---- MODULE Spec2Model ----
(***************************************************************************)
(* RenderData (cocos/renderer/ui/renderData.ts): per-element UI geometry   *)
(* buffers backed by two module-level recycle pools, _dataPool (vertex     *)
(* records) and _pool (RenderData instances).                              *)
(*                                                                         *)
(* Objects are modelled by identity: a RenderData instance is a number in  *)
(* Insts and its fields live in the heap rd; a vertex record is a number   *)
(* in Recs and its fields live in the heap vr.  JavaScript arrays are      *)
(* 0-based, TLA+ sequences 1-based: JS index i is sequence index i + 1.    *)
(***************************************************************************)
EXTENDS Integers, Sequences, FiniteSets, TLC

\* Number of RenderData objects in _pool's backing storage (32 in the source).
PoolSize == 2
\* Number of vertex records in _dataPool's backing storage (128 in the source).
DataPoolSize == 3

Insts == 1..PoolSize
Recs == 1..DataPoolSize
\* The <<width, height, pivotX, pivotY>> the caller passes to updateSizeNPivot:
\* the initial values, each parameter changed alone, and all changed.
GeomArgs ==
    {<<0, 0, 0, 0>>, <<1, 0, 0, 0>>, <<0, 1, 0, 0>>,
     <<0, 0, 1, 0>>, <<0, 0, 0, 1>>, <<1, 1, 1, 1>>}
\* Targets the caller assigns to dataLength.
Lengths == 0..DataPoolSize

VARIABLES
    _pool,       \* RecyclePool of RenderData: [data: backing array, count: in-use length]
    _dataPool,   \* RecyclePool of IRenderData: same shape
    rd,          \* heap of RenderData objects: Insts -> fields
    vr,          \* heap of IRenderData objects: Recs -> fields
    handles,     \* handles {pooID, data} the callers hold and have not released (a bag)
    compaction,  \* how RecyclePool.removeAt closes the gap: "swap" or "shift"
    last         \* the call that produced this state, with its arguments

vars == <<_pool, _dataPool, rd, vr, handles, compaction, last>>

---------------------------------------------------------------------------
(* Values *)

\* new IRenderData()
IRenderData ==
    [x |-> 0, y |-> 0, z |-> 0, u |-> 0, v |-> 0, color |-> "WHITE"]

\* What a consumer writes into a vertex record when it regenerates geometry.
WrittenVertex ==
    [x |-> 1, y |-> 1, z |-> 0, u |-> 1, v |-> 1, color |-> "RED"]

\* new RenderData(): BaseRenderData's fields, then RenderData's.
RenderData ==
    [material |-> "null", vertexCount |-> 0, indiceCount |-> 0,
     uvDirty |-> TRUE, vertDirty |-> TRUE,
     _datas |-> <<>>, _indices |-> <<>>,
     _pivotX |-> 0, _pivotY |-> 0, _width |-> 0, _height |-> 0]

---------------------------------------------------------------------------
(* JavaScript array primitives used by the setter *)

\* The value read from an array hole (an index never assigned); no record.
Undefined == 0

\* data[i] = x: overwrites, appends (i = data.length), or extends the array
\* to length i + 1 leaving holes below i.
ArraySet(data, i, x) ==
    IF i < Len(data)
    THEN [data EXCEPT ![i + 1] = x]
    ELSE data \o [k \in 1..(i - Len(data)) |-> Undefined] \o <<x>>

\* data.splice(i, 1): removes the element at i when there is one.
Splice(data, i) ==
    IF i < Len(data)
    THEN SubSeq(data, 1, i) \o SubSeq(data, i + 2, Len(data))
    ELSE data

---------------------------------------------------------------------------
(* RecyclePool (cocos/3d/memop/recycle-pool) *)

\* pool.length
PoolLength(pool) == pool.count

\* The objects in the in-use part and in the free part of the backing array.
InUse(pool) == {pool.data[k] : k \in 1..pool.count}
Free(pool) == {pool.data[k] : k \in (pool.count + 1)..Len(pool.data)}

\* pool.add(): hands out the first free object and counts it in use.
PoolAdd(pool) ==
    [obj |-> pool.data[pool.count + 1],
     pool |-> [pool EXCEPT !.count = @ + 1]]

\* pool.removeAt(idx), closing the gap by exchanging with the last in-use slot.
RemoveAtSwap(pool, idx) ==
    LET lastIdx == pool.count - 1
    IN  [data |-> [pool.data EXCEPT ![idx + 1] = pool.data[lastIdx + 1],
                                    ![lastIdx + 1] = pool.data[idx + 1]],
         count |-> pool.count - 1]

\* pool.removeAt(idx), closing the gap by moving the later in-use slots down;
\* the released object becomes the first free one.
RemoveAtShift(pool, idx) ==
    [data |-> [k \in 1..Len(pool.data) |->
                  IF k <= idx \/ k > pool.count THEN pool.data[k]
                  ELSE IF k = pool.count THEN pool.data[idx + 1]
                  ELSE pool.data[k + 1]],
     count |-> pool.count - 1]

\* pool.removeAt(idx): nothing is in use at or above pool.length.
PoolRemoveAt(pool, idx, how) ==
    IF idx >= pool.count THEN pool
    ELSE IF how = "swap" THEN RemoveAtSwap(pool, idx)
    ELSE RemoveAtShift(pool, idx)

\* _dataPool.add(): the record handed out is the first free one, with the
\* field values its last holder left in it.  The pool is given a factory
\* that makes new records and nothing that could reset a reused one, and
\* the setter stores what add() returns without writing to it.
DataPoolAdd(st) ==
    LET got == PoolAdd(st.pool)
    IN  [obj |-> got.obj,
         pool |-> got.pool,
         vr |-> st.vr]

---------------------------------------------------------------------------
(* RenderData: the dataLength setter.  st = [data, pool, vr] is the state   *)
(* the setter works on: this._datas, _dataPool and the vertex-record heap. *)

\* LoopStart with the loops started at the first index.
LoopStartZero(data) == 0

\* Where both loops start: i = value, the array's length before the call.
LoopStart(data) == Len(data)

\* GrowCond with the last iteration lost.
GrowCondShort(i, length) == i + 1 < length

\* ShrinkCond with one iteration too many.
ShrinkCondInclusive(i, length) == i >= length

\* The conditions of the two for loops.
GrowCond(i, length) == i < length
ShrinkCond(i, length) == i > length

\* for (i = value; i < length; i++) data[i] = _dataPool.add();
RECURSIVE GrowLoop(_, _, _)
GrowLoop(st, i, length) ==
    IF GrowCond(i, length)
    THEN LET got == DataPoolAdd(st)
         IN  GrowLoop([data |-> ArraySet(st.data, i, got.obj),
                       pool |-> got.pool,
                       vr |-> got.vr], i + 1, length)
    ELSE st

\* for (i = value; i > length; i--) { _dataPool.removeAt(i); data.splice(i, 1); }
RECURSIVE ShrinkLoop(_, _, _, _)
ShrinkLoop(st, i, length, how) ==
    IF ShrinkCond(i, length)
    THEN ShrinkLoop([data |-> Splice(st.data, i),
                     pool |-> PoolRemoveAt(st.pool, i, how),
                     vr |-> st.vr], i - 1, length, how)
    ELSE st

\* set dataLength without the length check and with the loops started at 0:
\* every record is fetched anew.
setDataLengthRefill(st, length, how) ==
    LET grown == GrowLoop(st, 0, length)
    IN  ShrinkLoop(grown, Len(st.data), length, how)

\* set dataLength (length)
setDataLength(st, length, how) ==
    IF Len(st.data) # length
    THEN LET value == LoopStart(st.data)
             grown == GrowLoop(st, value, length)
         IN  ShrinkLoop(grown, value, length, how)
    ELSE st

---------------------------------------------------------------------------
(* RenderData: updateSizeNPivot and clear, as functions of the object *)

\* SizeNPivotDiffers always true: the guard left out.
SizeNPivotAlways(obj, width, height, pivotX, pivotY) == TRUE

\* SizeNPivotDiffers with the comparison of pivotY forgotten.
SizeNPivotNoPivotY(obj, width, height, pivotX, pivotY) ==
    \/ width # obj._width
    \/ height # obj._height
    \/ pivotX # obj._pivotX

\* The condition of updateSizeNPivot's if.
SizeNPivotDiffers(obj, width, height, pivotX, pivotY) ==
    \/ width # obj._width
    \/ height # obj._height
    \/ pivotX # obj._pivotX
    \/ pivotY # obj._pivotY

\* updateSizeNPivot that marks the vertices clean once it has stored the values.
updateSizeNPivotCleans(obj, width, height, pivotX, pivotY) ==
    IF SizeNPivotDiffers(obj, width, height, pivotX, pivotY)
    THEN [obj EXCEPT !._width = width, !._height = height,
                     !._pivotX = pivotX, !._pivotY = pivotY,
                     !.vertDirty = FALSE]
    ELSE obj

updateSizeNPivot(obj, width, height, pivotX, pivotY) ==
    IF SizeNPivotDiffers(obj, width, height, pivotX, pivotY)
    THEN [obj EXCEPT !._width = width, !._height = height,
                     !._pivotX = pivotX, !._pivotY = pivotY,
                     !.vertDirty = TRUE]
    ELSE obj

\* clear with the reset of material forgotten.
clearKeepsMaterial(obj) ==
    [obj EXCEPT !._datas = <<>>, !._indices = <<>>,
                !._pivotX = 0, !._pivotY = 0, !._width = 0, !._height = 0,
                !.uvDirty = TRUE, !.vertDirty = TRUE,
                !.vertexCount = 0, !.indiceCount = 0]

clear(obj) ==
    [obj EXCEPT !._datas = <<>>, !._indices = <<>>,
                !._pivotX = 0, !._pivotY = 0, !._width = 0, !._height = 0,
                !.uvDirty = TRUE, !.vertDirty = TRUE,
                !.material = "null", !.vertexCount = 0, !.indiceCount = 0]

---------------------------------------------------------------------------
(* RenderData: the static add and remove *)

\* Handle with the "- 1" forgotten.
HandleAtLength(pool, data) == [pooID |-> PoolLength(pool), data |-> data]

\* The handle add() returns for the instance data just taken from pool.
Handle(pool, data) == [pooID |-> PoolLength(pool) - 1, data |-> data]

\* RenderData.add(): [handle, pool].
add(pool) ==
    LET got == PoolAdd(pool)
    IN  [handle |-> Handle(got.pool, got.obj), pool |-> got.pool]

\* remove with its two statements exchanged.
removeThenClear(pool, heap, idx, how) ==
    LET after == PoolRemoveAt(pool, idx, how)
        obj == after.data[idx + 1]
    IN  [pool |-> after,
         rd |-> [heap EXCEPT ![obj] = clear(heap[obj])]]

\* RenderData.remove(idx): [pool, rd].
remove(pool, heap, idx, how) ==
    LET obj == pool.data[idx + 1]
    IN  [pool |-> PoolRemoveAt(pool, idx, how),
         rd |-> [heap EXCEPT ![obj] = clear(heap[obj])]]

---------------------------------------------------------------------------
(* The state machine *)

HandleKeys == (0..(PoolSize - 1)) \X Insts

\* The instances some live handle refers to: the ones callers operate on.
Live == {d \in Insts : \E p \in 0..(PoolSize - 1) : handles[<<p, d>>] > 0}

\* <<width, height, pivotX, pivotY>> as stored in an instance.
SizeNPivot(obj) == <<obj._width, obj._height, obj._pivotX, obj._pivotY>>

\* No field of the instance that a caller can write has the value clear()
\* gives it (_indices is private and no member of the class adds to it).
AllSet(obj) ==
    /\ obj._datas # <<>>
    /\ obj._pivotX # 0 /\ obj._pivotY # 0 /\ obj._width # 0 /\ obj._height # 0
    /\ ~obj.uvDirty /\ ~obj.vertDirty
    /\ obj.material # "null" /\ obj.vertexCount # 0 /\ obj.indiceCount # 0

\* A call-log entry: the operation, the instance it acted on, its integer
\* argument n, the length M it found (datas.length or _pool.length), and a
\* fact about the state it found (pre), whose meaning depends on op; for
\* updateSizeNPivot also its arguments (geo) and the vertDirty it found.
Call(op, inst, n, M, pre) ==
    [op |-> op, inst |-> inst, n |-> n, M |-> M, pre |-> pre,
     geo |-> <<0, 0, 0, 0>>, dirty |-> FALSE]

Init ==
    /\ _pool = [data |-> [k \in 1..PoolSize |-> k], count |-> 0]
    /\ _dataPool = [data |-> [k \in 1..DataPoolSize |-> k], count |-> 0]
    /\ rd = [d \in Insts |-> RenderData]
    /\ vr = [r \in Recs |-> IRenderData]
    /\ handles = [h \in HandleKeys |-> 0]
    /\ compaction \in {"swap", "shift"}
    /\ last = Call("init", 0, 0, 0, FALSE)

\* const h = RenderData.add(), while the backing storage has a free object.
CallAdd ==
    /\ PoolLength(_pool) < PoolSize
    /\ LET got == add(_pool)
           key == <<got.handle.pooID, got.handle.data>>
       IN  /\ _pool' = got.pool
           /\ handles' = [handles EXCEPT ![key] = @ + 1]
           /\ last' = Call("add", got.handle.data, got.handle.pooID, PoolLength(_pool), FALSE)
    /\ UNCHANGED <<_dataPool, rd, vr, compaction>>

\* RenderData.remove(h.pooID) for a handle h the caller holds; h is dropped.
CallRemove(p, d) ==
    /\ handles[<<p, d>>] > 0
    /\ LET got == remove(_pool, rd, p, compaction)
       IN  /\ _pool' = got.pool
           /\ rd' = got.rd
    /\ handles' = [handles EXCEPT ![<<p, d>>] = @ - 1]
    /\ last' = Call("remove", _pool.data[p + 1], p, PoolLength(_pool),
                    rd[_pool.data[p + 1]].material # "null"
                        /\ ~rd[_pool.data[p + 1]].vertDirty)
    /\ UNCHANGED <<_dataPool, vr, compaction>>

\* h.data.dataLength = n, while _dataPool has the records a growth needs.
CallSetDataLength(d, n) ==
    /\ d \in Live
    /\ n > Len(rd[d]._datas) =>
           PoolLength(_dataPool) + (n - Len(rd[d]._datas)) <= DataPoolSize
    /\ LET st == setDataLength([data |-> rd[d]._datas, pool |-> _dataPool, vr |-> vr],
                               n, compaction)
       IN  /\ rd' = [rd EXCEPT ![d]._datas = st.data]
           /\ _dataPool' = st.pool
           /\ vr' = st.vr
    /\ last' = Call("dataLength", d, n, Len(rd[d]._datas),
                    \E k \in 1..(n - Len(rd[d]._datas)) :
                        vr[_dataPool.data[PoolLength(_dataPool) + k]] # IRenderData)
    /\ UNCHANGED <<_pool, handles, compaction>>

\* h.data.updateSizeNPivot(width, height, pivotX, pivotY)
CallUpdateSizeNPivot(d, width, height, pivotX, pivotY) ==
    /\ d \in Live
    /\ rd' = [rd EXCEPT ![d] = updateSizeNPivot(@, width, height, pivotX, pivotY)]
    /\ last' = [Call("updateSizeNPivot", d, 0, 0,
                      <<width, height, pivotX, pivotY>> # SizeNPivot(rd[d]))
                    EXCEPT !.geo = <<width, height, pivotX, pivotY>>,
                           !.dirty = rd[d].vertDirty]
    /\ UNCHANGED <<_pool, _dataPool, vr, handles, compaction>>

\* h.data.clear()
CallClear(d) ==
    /\ d \in Live
    /\ rd' = [rd EXCEPT ![d] = clear(@)]
    /\ last' = Call("clear", d, 0, Len(rd[d]._datas), AllSet(rd[d]))
    /\ UNCHANGED <<_pool, _dataPool, vr, handles, compaction>>

\* The consumer fills in a vertex record of h.data.datas.
WriteVertex(d, i) ==
    /\ d \in Live
    /\ i < Len(rd[d]._datas)
    /\ rd[d]._datas[i + 1] \in Recs
    /\ vr[rd[d]._datas[i + 1]] # WrittenVertex
    /\ vr' = [vr EXCEPT ![rd[d]._datas[i + 1]] = WrittenVertex]
    /\ last' = Call("write", d, i, 0, FALSE)
    /\ UNCHANGED <<_pool, _dataPool, rd, handles, compaction>>

\* The consumer sets the public fields material, vertexCount and indiceCount
\* of h.data.
BuildGeometry(d) ==
    /\ d \in Live
    /\ rd[d].material = "null"
    /\ rd' = [rd EXCEPT ![d].material = "mat", ![d].vertexCount = 1,
                        ![d].indiceCount = 1]
    /\ last' = Call("build", d, 0, 0, FALSE)
    /\ UNCHANGED <<_pool, _dataPool, vr, handles, compaction>>

\* The consumer has regenerated a buffer of h.data and marks it clean.
MarkClean(d, flag) ==
    /\ d \in Live
    /\ \/ flag = "uvDirty" /\ rd[d].uvDirty /\ rd' = [rd EXCEPT ![d].uvDirty = FALSE]
       \/ flag = "vertDirty" /\ rd[d].vertDirty /\ rd' = [rd EXCEPT ![d].vertDirty = FALSE]
    /\ last' = Call("clean", d, 0, 0, FALSE)
    /\ UNCHANGED <<_pool, _dataPool, vr, handles, compaction>>

Next ==
    \/ CallAdd
    \/ \E p \in 0..(PoolSize - 1), d \in Insts : CallRemove(p, d)
    \/ \E d \in Insts, n \in Lengths : CallSetDataLength(d, n)
    \/ \E d \in Insts, g \in GeomArgs : CallUpdateSizeNPivot(d, g[1], g[2], g[3], g[4])
    \/ \E d \in Insts : CallClear(d)
    \/ \E d \in Insts, i \in 0..(DataPoolSize - 1) : WriteVertex(d, i)
    \/ \E d \in Insts : BuildGeometry(d)
    \/ \E d \in Insts, flag \in {"uvDirty", "vertDirty"} : MarkClean(d, flag)

Spec == Init /\ [][Next]_vars

(* Next with all its callers is too large to search exhaustively even for *)
(* two instances, so each property is checked under a specification that  *)
(* restricts the callers to the operations the property is about.         *)

\* Life cycle and dataLength.
NextData ==
    \/ CallAdd
    \/ \E p \in 0..(PoolSize - 1), d \in Insts : CallRemove(p, d)
    \/ \E d \in Insts, n \in Lengths : CallSetDataLength(d, n)
    \/ \E d \in Insts : CallClear(d)

SpecData == Init /\ [][NextData]_vars

---------------------------------------------------------------------------
(* Properties of the dataLength setter *)

\* C1: after dataLength = N the instance's datas.length is N, and datas.length
\* is changed by nothing but a dataLength assignment to, or a clear of, that
\* very instance.
DataLengthIsAssigned ==
    [][/\ last'.op = "dataLength" => Len(rd'[last'.inst]._datas) = last'.n
       /\ \A d \in Insts :
              (last'.op \notin {"dataLength", "clear", "remove"} \/ last'.inst # d)
                  => Len(rd'[d]._datas) = Len(rd[d]._datas)]_vars

\* C2: shrinking from M to N removes exactly M - N records from datas, puts
\* exactly those records in the free part of _dataPool, and lowers
\* _dataPool.length by M - N.
ShrinkReleasesRemoved ==
    [][(last'.op = "dataLength" /\ last'.n < last'.M) =>
          LET old == rd[last'.inst]._datas
              new == rd'[last'.inst]._datas
              removed == {old[k] : k \in (last'.n + 1)..last'.M}
          IN  /\ new = SubSeq(old, 1, last'.n)
              /\ Free(_dataPool') = Free(_dataPool) \cup removed
              /\ PoolLength(_dataPool') = PoolLength(_dataPool) - (last'.M - last'.n)]_vars

\* C3: growing from M to N appends exactly N - M records, at indices M..N-1,
\* the k-th of them the record the k-th _dataPool.add() of the call hands out,
\* and raises _dataPool.length by N - M.
GrowAppends ==
    [][(last'.op = "dataLength" /\ last'.n > last'.M) =>
          LET old == rd[last'.inst]._datas
              new == rd'[last'.inst]._datas
              M == Len(old)
              N == last'.n
          IN  /\ Len(new) = N
              /\ SubSeq(new, 1, M) = old
              /\ \A k \in 1..(N - M) :
                     new[M + k] = _dataPool.data[PoolLength(_dataPool) + k]
              /\ PoolLength(_dataPool') = PoolLength(_dataPool) + (N - M)
              /\ _dataPool'.data = _dataPool.data]_vars

\* A growth by at least two records of an instance that already held one.
GrowAppendsWitness ==
    /\ last.op = "dataLength"
    /\ last.M > 0
    /\ last.n >= last.M + 2
    /\ Len(rd[last.inst]._datas) = last.n

---------------------------------------------------------------------------
(* Vertex records: handles are acquired and kept, their instances resized  *)
(* and their records written by the consumer.                              *)

NextVertex ==
    \/ CallAdd
    \/ \E d \in Insts, n \in Lengths : CallSetDataLength(d, n)
    \/ \E d \in Insts, i \in 0..(DataPoolSize - 1) : WriteVertex(d, i)

SpecVertex == Init /\ [][NextVertex]_vars

\* C5: every record a growing dataLength assignment appends is in the default
\* state (x = y = z = u = v = 0, color white) when the assignment returns,
\* also when it is a recycled record that an instance held, the consumer
\* wrote and a shrink released.
GrownRecordsDefault ==
    [][(last'.op = "dataLength" /\ last'.n > last'.M) =>
          LET new == rd'[last'.inst]._datas
          IN  \A k \in (last'.M + 1)..Len(new) :
                  /\ new[k] \in Recs
                  /\ vr'[new[k]].x = 0 /\ vr'[new[k]].y = 0 /\ vr'[new[k]].z = 0
                  /\ vr'[new[k]].u = 0 /\ vr'[new[k]].v = 0
                  /\ vr'[new[k]].color = "WHITE"]_vars

---------------------------------------------------------------------------
(* Size, pivot and dirty flags.  The search starts where a caller has      *)
(* acquired every instance of the pool and given each one vertex record    *)
(* (h = RenderData.add(); h.data.dataLength = 1, once per instance), and   *)
(* goes on with the calls that do not touch the pools: the instances are   *)
(* filled in, marked clean, re-measured and cleared.  No removeAt happens, *)
(* so the compaction strategy plays no part and is fixed.                  *)

\* The pools and heaps after the first k instances were acquired and sized.
RECURSIVE Acquired(_)
Acquired(k) ==
    IF k = 0
    THEN [pool |-> [data |-> [j \in 1..PoolSize |-> j], count |-> 0],
          dataPool |-> [data |-> [j \in 1..DataPoolSize |-> j], count |-> 0],
          rd |-> [d \in Insts |-> RenderData],
          vr |-> [r \in Recs |-> IRenderData],
          handles |-> [h \in HandleKeys |-> 0]]
    ELSE LET s == Acquired(k - 1)
             got == add(s.pool)
             d == got.handle.data
             st == setDataLength([data |-> s.rd[d]._datas, pool |-> s.dataPool,
                                  vr |-> s.vr], 1, "swap")
         IN  [pool |-> got.pool,
              dataPool |-> st.pool,
              rd |-> [s.rd EXCEPT ![d]._datas = st.data],
              vr |-> st.vr,
              handles |-> [s.handles EXCEPT ![<<got.handle.pooID, d>>] = @ + 1]]

InitGeom ==
    /\ _pool = Acquired(PoolSize).pool
    /\ _dataPool = Acquired(PoolSize).dataPool
    /\ rd = Acquired(PoolSize).rd
    /\ vr = Acquired(PoolSize).vr
    /\ handles = Acquired(PoolSize).handles
    /\ compaction = "swap"
    /\ last = Call("init", 0, 0, 0, FALSE)

NextGeom ==
    \/ \E d \in Insts, g \in GeomArgs : CallUpdateSizeNPivot(d, g[1], g[2], g[3], g[4])
    \/ \E d \in Insts : CallClear(d)
    \/ \E d \in Insts : BuildGeometry(d)
    \/ \E d \in Insts, flag \in {"uvDirty", "vertDirty"} : MarkClean(d, flag)

SpecGeom == InitGeom /\ [][NextGeom]_vars

\* C6: clear() leaves the instance with empty datas and indices, pivot and
\* size 0, both dirty flags true, no material and zero counts, whatever it
\* held; and a clear() right after a clear() of the same instance changes
\* neither the instances nor the pools.
ClearResets ==
    [][last'.op = "clear" =>
          LET o == rd'[last'.inst]
          IN  /\ Len(o._datas) = 0 /\ Len(o._indices) = 0
              /\ o._pivotX = 0 /\ o._pivotY = 0 /\ o._width = 0 /\ o._height = 0
              /\ o.uvDirty = TRUE /\ o.vertDirty = TRUE
              /\ o.material = "null" /\ o.vertexCount = 0 /\ o.indiceCount = 0
              /\ (last.op = "clear" /\ last.inst = last'.inst)
                     => UNCHANGED <<rd, vr, _pool, _dataPool>>]_vars

\* A clear() of an instance none of whose fields had its cleared value.
ClearResetsWitness ==
    /\ last.op = "clear"
    /\ last.pre
    /\ last.M > 0
    /\ rd[last.inst] = RenderData

\* C7: updateSizeNPivot called with the four values the instance already
\* stores changes nothing: not the instance (vertDirty included), not any
\* other instance, not the pools.
UpdateSameIsNoOp ==
    [][(last'.op = "updateSizeNPivot" /\ last'.geo = SizeNPivot(rd[last'.inst]))
          => UNCHANGED <<rd, vr, _pool, _dataPool, handles>>]_vars

\* A repeated call with the stored (non-initial) values on an instance whose
\* vertDirty the consumer had cleared: vertDirty is still false.
UpdateSameIsNoOpWitness ==
    /\ last.op = "updateSizeNPivot"
    /\ ~last.pre
    /\ ~last.dirty
    /\ last.geo # <<0, 0, 0, 0>>
    /\ SizeNPivot(rd[last.inst]) = last.geo
    /\ ~rd[last.inst].vertDirty

\* C8: updateSizeNPivot called with a value that differs from the stored one
\* stores the four arguments and sets vertDirty; and every call leaves
\* uvDirty, datas, indices, material, the counts and both pools as they were.
UpdateDiffersStoresAndDirties ==
    [][last'.op = "updateSizeNPivot" =>
          LET o == rd[last'.inst]
              o2 == rd'[last'.inst]
          IN  /\ last'.geo # SizeNPivot(o) =>
                     (SizeNPivot(o2) = last'.geo /\ o2.vertDirty = TRUE)
              /\ o2.uvDirty = o.uvDirty
              /\ o2._datas = o._datas /\ o2._indices = o._indices
              /\ o2.material = o.material
              /\ o2.vertexCount = o.vertexCount /\ o2.indiceCount = o.indiceCount
              /\ UNCHANGED <<vr, _pool, _dataPool>>]_vars

\* A call that changed pivotY alone, on an instance with a clean vertDirty, a
\* clean uvDirty, records, counts and a material: vertDirty is set, the rest
\* is as it was.
UpdateDiffersWitness ==
    /\ last.op = "updateSizeNPivot"
    /\ last.pre
    /\ ~last.dirty
    /\ last.geo = <<0, 0, 0, 1>>
    /\ rd[last.inst].vertDirty
    /\ ~rd[last.inst].uvDirty
    /\ rd[last.inst]._datas # <<>>
    /\ rd[last.inst].material # "null"

---------------------------------------------------------------------------
(* Handles: instances are acquired, filled in and marked clean by their    *)
(* owners, and released through their handles, in any order.               *)

NextLife ==
    \/ CallAdd
    \/ \E p \in 0..(PoolSize - 1), d \in Insts : CallRemove(p, d)
    \/ \E d \in Insts : BuildGeometry(d)
    \/ \E d \in Insts, flag \in {"uvDirty", "vertDirty"} : MarkClean(d, flag)

SpecLife == Init /\ [][NextLife]_vars

\* The number of live handles whose data is instance d.
HeldBy(d) ==
    LET RECURSIVE Sum(_)
        Sum(p) == IF p < 0 THEN 0 ELSE handles[<<p, d>>] + Sum(p - 1)
    IN  Sum(PoolSize - 1)

\* C4: the instance add() returns is in the cleared default state and is the
\* data of no other live handle.
AddReturnsClearedUnshared ==
    last.op = "add" =>
        /\ rd[last.inst] = RenderData
        /\ HeldBy(last.inst) = 1

\* C9: the handle add() returns has pooID = _pool.length - 1, the instance at
\* that position of _pool.data is its data, and _pool.length has grown by 1.
AddHandleIsLastSlot ==
    last.op = "add" =>
        /\ last.n = PoolLength(_pool) - 1
        /\ _pool.data[last.n + 1] = last.inst
        /\ handles[<<last.n, last.inst>>] > 0
        /\ PoolLength(_pool) = last.M + 1

\* An add() that found a handle live and the backing array reordered by an
\* earlier release.
AddHandleWitness ==
    /\ last.op = "add"
    /\ last.M = 1
    /\ _pool.data # [k \in 1..PoolSize |-> k]
    /\ _pool.data[PoolLength(_pool)] = last.inst

\* C10: remove(idx) with idx < _pool.length clears the instance found at idx,
\* takes exactly that instance out of the in-use slots (_pool.length drops by
\* 1) and changes no other instance.
RemoveClearsAndFrees ==
    [][(last'.op = "remove" /\ last'.n < PoolLength(_pool)) =>
          LET obj == _pool.data[last'.n + 1]
          IN  /\ rd'[obj] = RenderData
              /\ PoolLength(_pool') = PoolLength(_pool) - 1
              /\ InUse(_pool') = InUse(_pool) \ {obj}
              /\ obj \in Free(_pool')
              /\ \A e \in Insts \ {obj} : rd'[e] = rd[e]]_vars

\* A remove(0) with two slots in use, of an instance that held a material and
\* a clean vertDirty, beside an instance that still holds its own.
RemoveClearsWitness ==
    /\ last.op = "remove"
    /\ last.n = 0
    /\ last.M = 2
    /\ last.pre
    /\ rd[last.inst] = RenderData
    /\ \E e \in InUse(_pool) : rd[e].material # "null" /\ ~rd[e].vertDirty

---------------------------------------------------------------------------
(* Dirty flags under the whole core: the five operations of the core, and  *)
(* the consumer that marks a regenerated buffer clean.                     *)

\* The operations of the core, as the call log names them.
CoreOps == {"dataLength", "updateSizeNPivot", "clear", "add", "remove"}

\* What the callers of this search pass: lengths up to one record, and the
\* size and pivot with every parameter changed.
FlagLengths == {n \in Lengths : n <= 1}
FlagGeomArgs == {g \in GeomArgs : g[1] # 0 /\ g[4] # 0}

NextFlags ==
    \/ CallAdd
    \/ \E p \in 0..(PoolSize - 1), d \in Insts : CallRemove(p, d)
    \/ \E d \in Insts, n \in FlagLengths : CallSetDataLength(d, n)
    \/ \E d \in Insts, g \in FlagGeomArgs : CallUpdateSizeNPivot(d, g[1], g[2], g[3], g[4])
    \/ \E d \in Insts : CallClear(d)
    \/ \E d \in Insts, flag \in {"uvDirty", "vertDirty"} : MarkClean(d, flag)

SpecFlags == Init /\ [][NextFlags]_vars

\* C11: no step of the core (dataLength, updateSizeNPivot, clear, add, remove)
\* changes uvDirty or vertDirty of any instance from true to false; only the
\* consumer clears a flag.
CoreNeverCleans ==
    [][last'.op \in CoreOps =>
          \A d \in Insts :
              /\ rd[d].uvDirty => rd'[d].uvDirty
              /\ rd[d].vertDirty => rd'[d].vertDirty]_vars

\* An updateSizeNPivot with the stored values (so it set no flag), on an
\* instance whose uvDirty the consumer had cleared and whose vertDirty was
\* set: vertDirty is still set.
CoreNeverCleansWitness ==
    /\ last.op = "updateSizeNPivot"
    /\ ~last.pre
    /\ last.dirty
    /\ last.geo # <<0, 0, 0, 0>>
    /\ rd[last.inst].vertDirty
    /\ ~rd[last.inst].uvDirty

---------------------------------------------------------------------------
(* The frame of the dataLength setter: instances are acquired, filled in   *)
(* and marked clean by their owners, and resized.                          *)

NextFrame ==
    \/ CallAdd
    \/ \E d \in Insts, n \in FlagLengths : CallSetDataLength(d, n)
    \/ \E d \in Insts, g \in FlagGeomArgs : CallUpdateSizeNPivot(d, g[1], g[2], g[3], g[4])
    \/ \E d \in Insts : BuildGeometry(d)
    \/ \E d \in Insts, flag \in {"uvDirty", "vertDirty"} : MarkClean(d, flag)

SpecFrame == Init /\ [][NextFrame]_vars

\* C12: a dataLength assignment leaves uvDirty, vertDirty, width, height,
\* pivotX, pivotY, material, vertexCount, indiceCount and indices of the
\* instance as they were, whatever the target; and when the target equals the
\* current datas.length it changes nothing at all: datas, _dataPool's contents
\* and in-use count, the vertex records and every other instance are as before.
DataLengthFrame ==
    [][last'.op = "dataLength" =>
          LET o == rd[last'.inst]
              o2 == rd'[last'.inst]
          IN  /\ o2.uvDirty = o.uvDirty /\ o2.vertDirty = o.vertDirty
              /\ SizeNPivot(o2) = SizeNPivot(o)
              /\ o2.material = o.material
              /\ o2.vertexCount = o.vertexCount /\ o2.indiceCount = o.indiceCount
              /\ o2._indices = o._indices
              /\ last'.n = Len(o._datas) =>
                     UNCHANGED <<rd, vr, _pool, _dataPool, handles>>]_vars

\* dataLength = 1 on an instance that held one record, a size and pivot, a
\* material, counts and two clean flags: it still holds all of them.
DataLengthFrameWitness ==
    /\ last.op = "dataLength"
    /\ last.n = last.M
    /\ last.M > 0
    /\ Len(rd[last.inst]._datas) = last.M
    /\ ~rd[last.inst].uvDirty /\ ~rd[last.inst].vertDirty
    /\ SizeNPivot(rd[last.inst]) # <<0, 0, 0, 0>>
    /\ rd[last.inst].material # "null"
    /\ rd[last.inst].vertexCount # 0 /\ rd[last.inst].indiceCount # 0

---------------------------------------------------------------------------
(* The calls the dataLength setter makes, in order.  A call is <<name, i>>: *)
(* <<"add", i>> is data[i] = _dataPool.add(), <<"removeAt", i>> is          *)
(* _dataPool.removeAt(i) and <<"splice", i>> is data.splice(i, 1).          *)

\* The calls of the first loop, from its i on.
RECURSIVE GrowCalls(_, _)
GrowCalls(i, length) ==
    IF GrowCond(i, length)
    THEN <<<<"add", i>>>> \o GrowCalls(i + 1, length)
    ELSE <<>>

\* The calls of the second loop, from its i on.
RECURSIVE ShrinkCalls(_, _)
ShrinkCalls(i, length) ==
    IF ShrinkCond(i, length)
    THEN <<<<"removeAt", i>>, <<"splice", i>>>> \o ShrinkCalls(i - 1, length)
    ELSE <<>>

\* The calls of set dataLength (length) on an instance whose datas is data.
SetterCalls(data, length) ==
    IF Len(data) # length
    THEN GrowCalls(LoopStart(data), length) \o ShrinkCalls(LoopStart(data), length)
    ELSE <<>>

\* The state [data, pool, vr] after the calls are made one by one.
RECURSIVE Replay(_, _, _)
Replay(st, calls, how) ==
    IF calls = <<>> THEN st
    ELSE LET c == Head(calls)
             next == IF c[1] = "add"
                     THEN LET got == DataPoolAdd(st)
                          IN  [data |-> ArraySet(st.data, c[2], got.obj),
                               pool |-> got.pool, vr |-> got.vr]
                     ELSE IF c[1] = "removeAt"
                     THEN [st EXCEPT !.pool = PoolRemoveAt(st.pool, c[2], how)]
                     ELSE [st EXCEPT !.data = Splice(st.data, c[2])]
         IN  Replay(next, Tail(calls), how)

\* C13: a dataLength assignment of N < M (M the current datas.length) makes
\* the calls removeAt(i), splice(i, 1) for i = M, M-1, ..., N+1, in that
\* order, with the local index i given to the pool, and no add; an assignment
\* of N > M makes no removeAt and no splice.  The calls are the ones that
\* produce the state the assignment leaves.
ShrinkCallsInOrder ==
    [][last'.op = "dataLength" =>
          LET old == rd[last'.inst]._datas
              M == Len(old)
              N == last'.n
              calls == SetterCalls(old, N)
              done == Replay([data |-> old, pool |-> _dataPool, vr |-> vr],
                             calls, compaction)
          IN  /\ rd'[last'.inst]._datas = done.data
              /\ _dataPool' = done.pool
              /\ vr' = done.vr
              /\ N < M =>
                     calls = [k \in 1..(2 * (M - N)) |->
                                 IF k % 2 = 1
                                 THEN <<"removeAt", M - ((k - 1) \div 2)>>
                                 ELSE <<"splice", M - ((k - 2) \div 2)>>]
              /\ N > M => \A k \in 1..Len(calls) : calls[k][1] = "add"]_vars

\* A shrink by at least two, which ran the second loop at least twice, of an
\* instance that shares _dataPool with records of another instance.
ShrinkCallsWitness ==
    /\ last.op = "dataLength"
    /\ last.M >= last.n + 2
    /\ Len(SetterCalls([k \in 1..last.M |-> k], last.n)) >= 4
    /\ \E e \in Insts \ {last.inst} : rd[e]._datas # <<>>

---------------------------------------------------------------------------
(* Handle validity *)

\* C14: every live handle h has h.pooID < _pool.length and finds its own
\* instance at _pool.data[h.pooID], and no two live handles have the same
\* pooID.
HandlesValid ==
    \A p \in 0..(PoolSize - 1), d \in Insts :
        handles[<<p, d>>] > 0 =>
            /\ p < PoolLength(_pool)
            /\ _pool.data[p + 1] = d
            /\ handles[<<p, d>>] = 1
            /\ \A e \in Insts \ {d} : handles[<<p, e>>] = 0

---------------------------------------------------------------------------
(* Ownership and accounting of vertex records *)

\* C15: no vertex record occurs in the datas of two instances or at two
\* indices of one datas, and no record that is in some instance's datas lies
\* in the free part of _dataPool.
ExclusiveRecords ==
    /\ \A d, e \in Insts :
           \A i \in 1..Len(rd[d]._datas), j \in 1..Len(rd[e]._datas) :
               (d # e \/ i # j) => rd[d]._datas[i] # rd[e]._datas[j]
    /\ \A d \in Insts :
           \A i \in 1..Len(rd[d]._datas) : rd[d]._datas[i] \notin Free(_dataPool)

\* C16: the in-use count of _dataPool equals the sum of datas.length over all
\* RenderData instances, in every state; so once every instance has been
\* cleared or released, _dataPool.length is 0.
RecordsAccounted ==
    LET RECURSIVE Sum(_)
        Sum(d) == IF d = 0 THEN 0 ELSE Len(rd[d]._datas) + Sum(d - 1)
    IN  PoolLength(_dataPool) = Sum(PoolSize)

\* C17: a dataLength assignment of N to an instance whose datas has length M
\* leaves at each index below min(M, N) the same record object, with the same
\* field values, as before.
PrefixPreserved ==
    [][last'.op = "dataLength" =>
          LET old == rd[last'.inst]._datas
              new == rd'[last'.inst]._datas
              K == IF Len(old) < last'.n THEN Len(old) ELSE last'.n
          IN  \A k \in 1..K :
                  /\ k <= Len(new)
                  /\ new[k] = old[k]
                  /\ old[k] \in Recs => vr'[old[k]] = vr[old[k]]]_vars

\* A growth of an instance whose first record the consumer had written and
\* an earlier shrink had released behind its back: the pool hands that same
\* record out again, it now sits at the appended index too, and the values
\* the consumer wrote are still in it.
PrefixPreservedWitness ==
    /\ last.op = "dataLength"
    /\ last.M >= 1
    /\ last.n > last.M
    /\ last.pre
    /\ Len(rd[last.inst]._datas) = last.n
    /\ rd[last.inst]._datas[last.M + 1] = rd[last.inst]._datas[1]
    /\ vr[rd[last.inst]._datas[1]] = WrittenVertex

====
